---- MODULE Spec2Model ----
(***************************************************************************)
(* The status-driven row pipeline of porter/bad_main.py (the version with  *)
(* the shared browser, the validated completion and the prompt library),   *)
(* with the tools it imports: tools/get_website_async.py and               *)
(* tools/simple_ai_async.py.                                               *)
(*                                                                         *)
(* The remote row store, the browser and the completion endpoint are the   *)
(* environment: every call to them either returns or raises, and the       *)
(* choice is nondeterministic.  One action is one segment of a coroutine   *)
(* between two suspension points (await), run atomically by the single     *)
(* threaded event loop.                                                    *)
(***************************************************************************)
EXTENDS Integers, Sequences, FiniteSets, TLC

\* ------------------------------------------------------------------ bounds

\* Number of rows of the remote table.
NumRows == 3

\* PROCESSING_CONCURRENCY, the value of the row semaphore (bad_main.py:38
\* reads it from the environment, default 3).  Kept below NumRows so that
\* tasks do queue on the semaphore.
CONCURRENCY == 2

RowIds == 1..NumRows

\* ------------------------------------------------------------- row store

Statuses == {"Todo", "In progress", "Toai", "AI in progress", "Done", "Error"}

\* Fields that get_rows_to_process asks the store for (fields=[...]).
FetchedFieldNames == {"URL", "Pricing URL", "Status"}

\* Fields that handle_website writes.
WebFields == {"Title", "H1", "Meta_Description", "URL_Content"}

\* Generated fields of the table schemas the model is run against.
AIFields == {"AI_SUMMARY", "AI_Note", "AI_Plain", "AI_Tone", "AI_Bare"}

CellNames ==
    {"URL", "Pricing URL", "Pricing_URL_Content", "Error Details", "Screenshot"}
        \cup WebFields \cup AIFields

\* A cell of the store, by the kind of its content:
\*   "empty"  no value (the store omits the field from the record)
\*   "old"    a value that was there before the worker started
\*   "text"   a value written by a worker in the success case
\*   "error"  an error text written by a worker, with at most ErrorCap
\*            characters of the exception's message
\*   "long_error"  an error text with more of the message than that
CellKinds == {"empty", "old", "text", "error", "long_error"}

EmptyCells == [f \in CellNames |-> "empty"]

\* The rows the table may hold at start: status, URL, Pricing URL and
\* whether a generated field already holds a value.
RowKinds ==
    { [status |-> "Todo", cells |-> [EmptyCells EXCEPT !["URL"] = "old",
                                                       !["Pricing URL"] = "old"]],
      [status |-> "Todo", cells |-> EmptyCells],
      [status |-> "Toai", cells |-> EmptyCells],
      [status |-> "Toai", cells |-> [EmptyCells EXCEPT !["URL"] = "old",
                                                       !["AI_Plain"] = "old"]],
      [status |-> "Done", cells |-> [EmptyCells EXCEPT !["URL"] = "old"]],
      [status |-> "Error", cells |-> [EmptyCells EXCEPT !["URL"] = "old"]],
      [status |-> "In progress", cells |-> [EmptyCells EXCEPT !["URL"] = "old"]],
      [status |-> "AI in progress", cells |-> [EmptyCells EXCEPT !["URL"] = "old"]] }

\* ------------------------------------------------------ schema and prompts

\* The schemas the table may have (table.schema().fields), as the set of
\* the field names.
Schemas ==
    { {"Title", "AI_SUMMARY", "AI_Bare"},
      {"Title", "AI_SUMMARY", "AI_Note", "AI_Plain", "AI_Bare"} }

\* field.name.startswith("AI_")
HasAIPrefix(f) == f \in AIFields

\* field.name in prompt_library
InLibrary(f) == f \in {"AI_DESCRIPTION", "AI_SUMMARY", "AI_TAGS"}

\* The {Placeholder} tokens of the library prompts.
LibraryPlaceholders(f) ==
    CASE f = "AI_DESCRIPTION" -> {"Title", "Meta Description", "URL Content"}
      [] f = "AI_SUMMARY" -> {"Title", "Name", "H1", "URL", "Meta Description"}
      [] f = "AI_TAGS" -> {"URL_Content"}
      [] OTHER -> {}

\* A schema with more generated fields that get a completion request than
\* the row semaphore has permits.
WideSchema == {"Title", "AI_Note", "AI_Plain", "AI_Tone"}

\* field.description of the schemas above: AI_Note is described by a prompt
\* with the token {URL}, AI_Plain and AI_Tone by a prompt without tokens, and
\* AI_Bare (like Title) has no description.
HasDescription(f) == f \in {"AI_Note", "AI_Plain", "AI_Tone"}

DescriptionPlaceholders(f) == IF f = "AI_Note" THEN {"URL"} ELSE {}

\* --------------------------------------------------------------- variables

VARIABLES
    status,     \* store: row id -> Status
    cells,      \* store: row id -> cell name -> kind of content
    schema,     \* store: the field names of the table schema
    configOK,   \* AIRTABLE_API_KEY, _BASE_ID and _TABLE_NAME are all set
    browser,    \* run_continuously's browser: "none", "connected", "disconnected",
                \* or "closed" once browser.close() was called on it
    spc,        \* where run_continuously is
    rows,       \* main_async's rows: the records fetched this cycle
    tasks,      \* the process_row coroutines of the cycle
    permits,    \* value of the cycle's semaphore
    files,      \* local screenshot files on disk
    cleanCall,    \* frame of the text cleaning of one get_website_async call
    resolveCall,  \* frame of the prompt resolution of one generated field
    validateCall, \* frame of one get_validated_response_async call
    extractCalls  \* frames of the get_website_async calls of one process_urls

vars == <<status, cells, schema, configOK, browser, spc, rows, tasks,
          permits, files, cleanCall, resolveCall, validateCall, extractCalls>>

pipeVars == <<status, cells, schema, configOK, browser, spc, rows, tasks,
              permits, files>>

callVars == <<cleanCall, resolveCall, validateCall, extractCalls>>

NoCall == [pc |-> "none"]

storeVars == <<status, cells>>

envVars == <<schema, configOK>>

\* ------------------------------------------------- get_ai_response_async

\* A string is the sequence of its characters.

\* s[from-1 : to-1]
Slice(s, from, to) == [j \in 1..(to - from) |-> s[from + j - 1]]

Whitespace == {" ", "\n", "\t"}

\* str.strip()
Strip(s) ==
    LET kept == { k \in 1..Len(s) : s[k] \notin Whitespace }
    IN  IF kept = {} THEN <<>>
        ELSE Slice(s, CHOOSE k \in kept : \A n \in kept : k <= n,
                      (CHOOSE k \in kept : \A n \in kept : k >= n) + 1)

\* None, told from every string by an element that is no character.
Null == <<"None">>

\* What the awaited chat.completions.create call gives get_ai_response_async:
\* it raises (network, API or library error), or it returns a response whose
\* message content is None or a text.
ApiError == <<"APIError">>

\* Message contents of a completion: None, empty and blank texts, texts that
\* are only quotes, and texts with something in them.
CompletionContents ==
    { Null, <<>>, <<" ">>, <<"\"", "\"">>, <<"'", " ", "'">>,
      <<"a">>, <<" ", "a", "\n">>, <<"\"", "a", "\"">> }

\* The cleanup of lines 47-50: a text of more than one character that starts
\* and ends with the quote q loses both and is stripped again.
Unquote(s, q) ==
    IF Len(s) > 1 /\ s[1] = q /\ s[Len(s)] = q
    THEN Strip(Slice(s, 2, Len(s)))
    ELSE s

\* text_content of lines 43-50 for the message content `content`.
TextContent(content) ==
    Unquote(Unquote(Strip(IF content = Null THEN <<>> ELSE content), "\""), "'")

\* Faulty variant of GetAiResponse: the API call is not inside a try block.
GetAiResponseUncaught(api_key, api) ==
    IF ~api_key THEN Null
    ELSE IF api = ApiError THEN ApiError
    ELSE IF TextContent(api) = <<>> THEN Null ELSE TextContent(api)

\* get_ai_response_async (lines 27-61) for an API key that is set or not and
\* the outcome `api` of the API call: the cleaned text, or None without a
\* key, on an exception of the call and for a text empty after the cleanup.
\* The value ApiError stands for an exception leaving the function.
GetAiResponse(api_key, api) ==
    IF ~api_key THEN Null
    ELSE IF api = ApiError THEN Null
    ELSE IF TextContent(api) = <<>> THEN Null ELSE TextContent(api)

\* Some completion call can end with an exception.
CompletionMayRaise ==
    \E api_key \in BOOLEAN : \E api \in CompletionContents \cup {ApiError} :
        GetAiResponse(api_key, api) = ApiError

\* A fetched record: the id and the projection of the row on FetchedFieldNames
\* (the store leaves empty fields out of the record).
Record(r) ==
    [id |-> r,
     fields |-> (IF cells[r]["URL"] # "empty" THEN {"URL"} ELSE {})
                  \cup (IF cells[r]["Pricing URL"] # "empty" THEN {"Pricing URL"} ELSE {})
                  \cup {"Status"},
     status |-> status[r]]

\* ----------------------------------------------------------- process_row

NoResp == [f \in AIFields |-> "none"]

\* The coroutine process_row(browser, row, table, semaphore) as main_async
\* creates it: row_id, fields and status are read from the fetched record.
NewTask(rec) ==
    [row |-> rec.id, st |-> rec.status, fields |-> rec.fields,
     pc |-> "waiting", exit |-> "none", fail |-> FALSE,
     shot |-> FALSE, pshot |-> FALSE,
     resp |-> NoResp, has_errors |-> "unbound", last |-> "none"]

TaskIds == 1..Len(tasks)

InFlight(i) == tasks[i].pc # "done"

\* Inside the `async with semaphore` block of process_row.
Active(i) == tasks[i].pc \notin {"waiting", "done"}

\* url = fields.get("URL", "No URL"): a record without the field gets the
\* text "No URL"; the store never returns a field with an empty value.
Url(t) == IF "URL" \in t.fields THEN "url" ELSE "No URL"

\* Faulty variant of Handler: every row with work to do goes to the AI worker.
HandlerAiForAll(t) ==
    IF t.st \in {"Todo", "Toai"} THEN "ai" ELSE "none"

\* The branch of process_row (lines 70-77) on the fetched status.
Handler(t) ==
    IF t.st = "Todo" /\ Url(t) # "" THEN "web"
    ELSE IF t.st = "Toai" THEN "ai"
    ELSE "none"

\* The coroutine leaves the semaphore block and ends, and its frame is gone:
\* what stays of it is how it ended.  `how` is "returned" when the handler
\* returned, "raised" when an exception reached the except clause of
\* process_row (which logs it and writes nothing), and "noaction" when no
\* handler ran; `last` is the statement the coroutine was at when it ended,
\* and has_errors the value the handler had computed, if it had.
Ended(t, how, failed) ==
    [NewTask([id |-> t.row, status |-> t.st, fields |-> t.fields])
        EXCEPT !.pc = "done", !.exit = how, !.fail = t.fail \/ failed,
               !.last = t.pc, !.has_errors = t.has_errors]

\* Faulty variant of Leave: the permit is not given back.
LeaveKeepingPermit(i, how, failed) ==
    /\ tasks' = [tasks EXCEPT ![i] = Ended(tasks[i], how, failed)]
    /\ UNCHANGED permits

Leave(i, how, failed) ==
    /\ tasks' = [tasks EXCEPT ![i] = Ended(tasks[i], how, failed)]
    /\ permits' = permits + 1

\* Faulty variant of CanAcquire: the permit count is not consulted.
CanAcquireUnlimited(i) ==
    /\ tasks[i].pc = "waiting"
    /\ \A j \in 1..(i - 1) : tasks[j].pc # "waiting"

\* asyncio.Semaphore.acquire: the tasks were started in list order and the
\* waiters are woken first in, first out.
CanAcquire(i) ==
    /\ tasks[i].pc = "waiting"
    /\ permits > 0
    /\ \A j \in 1..(i - 1) : tasks[j].pc # "waiting"

\* async with semaphore, then the branch on the status up to the first
\* await of the handler (its first update_table call).
Acquire(i) ==
    /\ i \in TaskIds
    /\ CanAcquire(i)
    /\ LET h == Handler(tasks[i]) IN
        IF h = "none"
        THEN /\ tasks' = [tasks EXCEPT ![i] = Ended(tasks[i], "noaction", FALSE)]
             /\ UNCHANGED permits
        ELSE /\ tasks' = [tasks EXCEPT ![i].pc = IF h = "web" THEN "web_inprog"
                                                  ELSE "ai_inprog"]
             /\ permits' = permits - 1
    /\ UNCHANGED <<storeVars, envVars, callVars, browser, spc, rows, files>>

\* ---------------------------------------------------------- handle_website

\* The parameters of tools/get_website_async.get_website_async, in order,
\* and those without a default value.
GetWebsiteParams == <<"browser", "context", "url", "name">>

GetWebsiteRequired == {"browser", "context", "url"}

\* The call of handle_website: get_website_async(browser, url, name=row_id),
\* two positional arguments and the keyword name.
WebsiteCall == [positional |-> 2, keywords |-> {"name"}]

\* Python's binding of a call's arguments to a signature: every parameter
\* without a default must get a positional or a keyword argument, else the
\* call raises TypeError before the function body runs.
ArgsBind(params, required, call) ==
    LET bound == {params[k] : k \in 1..call.positional} \cup call.keywords
    IN  /\ call.positional <= Len(params)
        /\ call.keywords \subseteq {params[k] : k \in 1..Len(params)}
        /\ required \subseteq bound

\* update_table(table, row_id, {"Status": "In progress"}), before the try
\* block: a failure of the write leaves handle_website and reaches the
\* except clause of process_row.
WebMarkInProgress(i) ==
    /\ i \in TaskIds
    /\ tasks[i].pc = "web_inprog"
    /\ \/ /\ status' = [status EXCEPT ![tasks[i].row] = "In progress"]
          /\ tasks' = [tasks EXCEPT ![i].pc = "web_extract"]
          /\ UNCHANGED permits
       \/ /\ Leave(i, "raised", TRUE)
          /\ UNCHANGED status
    /\ UNCHANGED <<cells, envVars, callVars, browser, spc, rows, files>>

\* The try block of handle_website from the get_website_async call on.  The
\* call does not bind to the signature of tools/get_website_async.py: the
\* TypeError is caught by the except clause (line 168), which has no local
\* file to clean up and issues the Error write.
WebExtract(i) ==
    /\ i \in TaskIds
    /\ tasks[i].pc = "web_extract"
    /\ IF ArgsBind(GetWebsiteParams, GetWebsiteRequired, WebsiteCall)
       THEN tasks' = [tasks EXCEPT ![i].pc = "web_page"]
       ELSE tasks' = [tasks EXCEPT ![i].pc = "web_error_write"]
    /\ UNCHANGED <<storeVars, envVars, callVars, browser, spc, rows, permits, files>>

\* The number of characters of str(e) that the except clauses of the two
\* handlers put into Error Details: str(e)[:1000].
ErrorCap == 1000

\* len(s[:ErrorCap]) for a text s of n characters
Truncate(n) == IF n > ErrorCap THEN ErrorCap ELSE n

\* The kind of an Error Details text that carries n characters of the message.
DetailKind(n) == IF n <= ErrorCap THEN "error" ELSE "long_error"

\* len(str(e)) of the exceptions the except clauses see: the interpreter's
\* own messages (TypeError, UnboundLocalError) are one short line, a message
\* of the store's client carries the response and may be of any length.
MessageLengths(cause) ==
    IF cause = "store" THEN {1, ErrorCap, ErrorCap + 1} ELSE {1}

\* Faulty variant of WebErrorWrite: the status is set without the detail.
WebErrorWriteStatusOnly(i) ==
    /\ i \in TaskIds
    /\ tasks[i].pc = "web_error_write"
    /\ \/ /\ status' = [status EXCEPT ![tasks[i].row] = "Error"]
          /\ UNCHANGED cells
          /\ Leave(i, "returned", FALSE)
       \/ /\ Leave(i, "raised", TRUE)
          /\ UNCHANGED storeVars
    /\ UNCHANGED <<envVars, callVars, browser, spc, rows, files>>

\* update_table(table, row_id, {"Status": "Error", "Error Details": ...}) of
\* the except clause (the exception is the TypeError of the call);
\* handle_website does not re-raise, a failure of this write does leave it.
WebErrorWrite(i) ==
    /\ i \in TaskIds
    /\ tasks[i].pc = "web_error_write"
    /\ \/ /\ status' = [status EXCEPT ![tasks[i].row] = "Error"]
          /\ \E n \in MessageLengths("interpreter") :
                cells' = [cells EXCEPT ![tasks[i].row]["Error Details"] =
                                           DetailKind(Truncate(n))]
          /\ Leave(i, "returned", FALSE)
       \/ /\ Leave(i, "raised", TRUE)
          /\ UNCHANGED storeVars
    /\ UNCHANGED <<envVars, callVars, browser, spc, rows, files>>

\* ----------------------------------------------------- handle_ai_processing

\* Where the base prompt of a field comes from (lines 204-214): the prompt
\* library first, the schema description second.
PromptSource(f) ==
    IF InLibrary(f) THEN "library"
    ELSE IF HasDescription(f) THEN "description"
    ELSE "none"

\* re.findall(r'{([^{}]+)}', prompt) on the base prompt of the field.
Placeholders(f) ==
    IF InLibrary(f) THEN LibraryPlaceholders(f) ELSE DescriptionPlaceholders(f)

\* valid_substitution (lines 219-226): every placeholder is a key of the
\* fetched fields with a value that is not None.
ValidSubstitution(t, f) == \A p \in Placeholders(f) : p \in t.fields

\* The loop over schema.fields (lines 201-235): the names appended to
\* ai_field_names, one get_validated_response_async coroutine each.
Requested(t) ==
    { f \in schema : /\ HasAIPrefix(f)
                     /\ f \notin t.fields
                     /\ PromptSource(f) # "none"
                     /\ ValidSubstitution(t, f) }

\* What get_validated_response_async gives back to the gather: the accepted
\* text, or None, or the exception of a completion call if one can leave
\* get_ai_response_async.
ValidatedOutcomes ==
    {"text", "null"} \cup (IF CompletionMayRaise THEN {"exc"} ELSE {})

\* Faulty variant of AiTasks: the completion coroutines are awaited one
\* after the other, a single request being outstanding.
AiTasksOneByOne(names) ==
    [f \in AIFields |->
        IF names # {} /\ f = (CHOOSE g \in names : TRUE) THEN "pending" ELSE "none"]

\* ai_tasks as it is handed to asyncio.gather (lines 233-240): one
\* get_validated_response_async coroutine for each name, all of them started
\* by the gather with no semaphore between them.
AiTasks(names) ==
    [f \in AIFields |-> IF f \in names THEN "pending" ELSE "none"]

\* update_table(table, row_id, {"Status": "AI in progress"}), before the try
\* block of handle_ai_processing.
AiMarkInProgress(i) ==
    /\ i \in TaskIds
    /\ tasks[i].pc = "ai_inprog"
    /\ \/ /\ status' = [status EXCEPT ![tasks[i].row] = "AI in progress"]
          /\ tasks' = [tasks EXCEPT ![i].pc = "ai_schema"]
          /\ UNCHANGED permits
       \/ /\ Leave(i, "raised", TRUE)
          /\ UNCHANGED status
    /\ UNCHANGED <<cells, envVars, callVars, browser, spc, rows, files>>

\* get_table_schema returns and the loop over the fields runs.  With tasks to
\* run the coroutine waits in asyncio.gather; with none, line 262 reads
\* has_errors, which was never assigned: the UnboundLocalError is caught by
\* the except clause (line 266), as is a failure of get_table_schema.
AiSchema(i) ==
    /\ i \in TaskIds
    /\ tasks[i].pc = "ai_schema"
    /\ \/ LET names == Requested(tasks[i]) IN
          tasks' = [tasks EXCEPT
              ![i].resp = AiTasks(names),
              ![i].pc = IF names # {} THEN "ai_gather" ELSE "ai_error_write"]
       \/ tasks' = [tasks EXCEPT ![i].pc = "ai_error_write", ![i].fail = TRUE]
    /\ UNCHANGED <<storeVars, envVars, callVars, browser, spc, rows, permits, files>>

\* Faulty variant of AiUpdates: only the failures are recorded.
AiUpdatesErrorsOnly(names, resp) == { f \in names : resp[f] = "exc" }

\* ai_updates (lines 243-256) for the responses resp: an exception is
\* recorded as an error text, a non-empty response as the value, an empty
\* response is left out.
AiUpdates(names, resp) == { f \in names : resp[f] \in {"text", "exc"} }

\* asyncio.gather(*ai_tasks, return_exceptions=True) returns, each of the
\* get_validated_response_async coroutines having ended with its own outcome:
\* ai_updates and has_errors are computed and the next write is issued.
AiGather(i) ==
    /\ i \in TaskIds
    /\ tasks[i].pc = "ai_gather"
    /\ \E out \in [Requested(tasks[i]) -> ValidatedOutcomes] :
          LET names == Requested(tasks[i])
              resp == [f \in AIFields |-> IF f \in names THEN out[f] ELSE "none"]
          IN  tasks' = [tasks EXCEPT
                  ![i].resp = resp,
                  ![i].has_errors = IF \E g \in names : resp[g] = "exc"
                                    THEN "True" ELSE "False",
                  ![i].pc = IF AiUpdates(names, resp) # {} THEN "ai_update"
                            ELSE "ai_final"]
    /\ UNCHANGED <<storeVars, envVars, callVars, browser, spc, rows, permits, files>>

\* update_table(table, row_id, ai_updates)
AiUpdate(i) ==
    /\ i \in TaskIds
    /\ tasks[i].pc = "ai_update"
    /\ \/ /\ cells' = [cells EXCEPT ![tasks[i].row] =
                [f \in CellNames |->
                    IF f \in AiUpdates(Requested(tasks[i]), tasks[i].resp)
                    THEN (IF tasks[i].resp[f] = "exc" THEN "error" ELSE "text")
                    ELSE @[f]]]
          /\ tasks' = [tasks EXCEPT ![i].pc = "ai_final"]
       \/ /\ tasks' = [tasks EXCEPT ![i].pc = "ai_error_write", ![i].fail = TRUE,
                                    ![i].resp = NoResp, ![i].has_errors = "unbound"]
          /\ UNCHANGED cells
    /\ UNCHANGED <<status, envVars, callVars, browser, spc, rows, permits, files>>

\* final_status = "Error" if has_errors else "Done"
FinalStatus(t) == IF t.has_errors = "True" THEN "Error" ELSE "Done"

\* Faulty variant of AiFinal: the handler goes on after its final write and
\* reaches the Error write of the except clause.
AiFinalThenError(i) ==
    /\ i \in TaskIds
    /\ tasks[i].pc = "ai_final"
    /\ status' = [status EXCEPT ![tasks[i].row] = FinalStatus(tasks[i])]
    /\ tasks' = [tasks EXCEPT ![i].pc = "ai_error_write"]
    /\ UNCHANGED <<cells, envVars, callVars, browser, spc, rows, permits, files>>

\* update_table(table, row_id, {"Status": final_status}); the handler returns.
AiFinal(i) ==
    /\ i \in TaskIds
    /\ tasks[i].pc = "ai_final"
    /\ \/ /\ status' = [status EXCEPT ![tasks[i].row] = FinalStatus(tasks[i])]
          /\ Leave(i, "returned", FALSE)
       \/ /\ tasks' = [tasks EXCEPT ![i].pc = "ai_error_write", ![i].fail = TRUE,
                                    ![i].resp = NoResp, ![i].has_errors = "unbound"]
          /\ UNCHANGED <<status, permits>>
    /\ UNCHANGED <<cells, envVars, callVars, browser, spc, rows, files>>

\* Faulty variant of AiErrorWrite: the except clause only logs the error.
AiErrorLogOnly(i) ==
    /\ i \in TaskIds
    /\ tasks[i].pc = "ai_error_write"
    /\ Leave(i, "returned", FALSE)
    /\ UNCHANGED <<storeVars, envVars, callVars, browser, spc, rows, files>>

\* The except clause of handle_ai_processing (lines 266-270):
\* update_table(table, row_id, {"Status": "Error", "Error Details": ...}).
\* The exception is one of the store (fail is set) or the UnboundLocalError.
AiErrorWrite(i) ==
    /\ i \in TaskIds
    /\ tasks[i].pc = "ai_error_write"
    /\ \/ /\ status' = [status EXCEPT ![tasks[i].row] = "Error"]
          /\ \E n \in MessageLengths(IF tasks[i].fail THEN "store"
                                      ELSE "interpreter") :
                cells' = [cells EXCEPT ![tasks[i].row]["Error Details"] =
                                           DetailKind(Truncate(n))]
          /\ Leave(i, "returned", FALSE)
       \/ /\ Leave(i, "raised", TRUE)
          /\ UNCHANGED storeVars
    /\ UNCHANGED <<envVars, callVars, browser, spc, rows, files>>

\* ------------------------------------------- main_async and run_continuously

\* Faulty variant of FormulaMatches: only the Todo rows are asked for.
FormulaMatchesTodoOnly(r) == status[r] = "Todo"

\* Faulty variant of FormulaMatches: every row is listed (table.all without formula).
FormulaMatchesAll(r) == status[r] \in Statuses

\* formula = OR(match({"Status": "Todo"}), match({"Status": "Toai"}))
FormulaMatches(r) == status[r] \in {"Todo", "Toai"}

RECURSIVE Listing(_, _)
\* table.all(formula=...): the matching records, each once, here by id.
Listing(r, acc) ==
    IF r > NumRows THEN acc
    ELSE Listing(r + 1, IF FormulaMatches(r) THEN Append(acc, Record(r)) ELSE acc)

\* Faulty variant of Dispatch: every row gets two coroutines.
DispatchTwice(fetched) ==
    [k \in 1..(2 * Len(fetched)) |-> NewTask(fetched[((k - 1) % Len(fetched)) + 1])]

\* tasks = [process_row(browser, row, table, semaphore) for row in rows]
Dispatch(fetched) == [k \in 1..Len(fetched) |-> NewTask(fetched[k])]

\* Faulty variant of GatherReturns: the exception of a row is not caught in
\* process_row and ends the gather while the other tasks still run.
GatherReturnsOnFirstRaise ==
    \/ \A i \in TaskIds : tasks[i].pc = "done"
    \/ \E i \in TaskIds : tasks[i].pc = "done" /\ tasks[i].exit = "raised"

\* Faulty variant of GatherReturns: the tasks are started and not awaited.
GatherReturnsAtOnce == TRUE

\* await asyncio.gather(*tasks) returns when every task has ended.
GatherReturns == \A i \in TaskIds : tasks[i].pc = "done"

\* Faulty variant of EnterMain: the configuration is not checked.
EnterMainUnchecked == spc' = "fetch"

\* main_async up to its first await: without the store configuration the
\* cycle returns at once; otherwise get_rows_to_process is awaited.
EnterMain == spc' = IF configOK THEN "fetch" ELSE "sleep"

\* Faulty variant of SchedTop: only `browser is None` is checked.
SchedTopNoneOnly ==
    /\ spc = "top"
    /\ IF browser # "none" THEN EnterMain ELSE spc' = "launch"
    /\ UNCHANGED <<storeVars, envVars, callVars, browser, rows, tasks, permits, files>>

\* Faulty variant of SchedTop: a browser is launched for every cycle.
SchedTopAlwaysLaunch ==
    /\ spc = "top"
    /\ spc' = "launch"
    /\ UNCHANGED <<storeVars, envVars, callVars, browser, rows, tasks, permits, files>>

\* Top of the while loop of run_continuously: the browser check.
SchedTop ==
    /\ spc = "top"
    /\ IF browser = "connected" THEN EnterMain ELSE spc' = "launch"
    /\ UNCHANGED <<storeVars, envVars, callVars, browser, rows, tasks, permits, files>>

\* browser.close() is tried on the previous instance, if there was one
\* (errors only logged), and a browser is launched; if the launch fails the
\* loop is left (break), and the check after the loop finds no connected
\* browser to close.
SchedLaunch ==
    /\ spc = "launch"
    /\ \/ /\ browser' = "connected"
          /\ EnterMain
       \/ /\ spc' = "stopped"
          /\ browser' = IF browser = "none" THEN "none" ELSE "closed"
    /\ UNCHANGED <<storeVars, envVars, callVars, rows, tasks, permits, files>>

\* Faulty variant of SchedFetch: an exception of the store ends the scheduler.
SchedFetchUncaught ==
    /\ spc = "fetch"
    /\ spc' = "stopped"
    /\ UNCHANGED <<storeVars, envVars, callVars, browser, rows, tasks, permits, files>>

\* get_rows_to_process returns: no rows ends the cycle, otherwise the
\* semaphore and one task per row are created and gathered.  An exception of
\* the store is caught by the except clause of main_async.
SchedFetch ==
    /\ spc = "fetch"
    /\ \/ LET fetched == Listing(1, <<>>) IN
          /\ rows' = fetched
          /\ IF fetched = <<>>
             THEN /\ spc' = "sleep"
                  /\ UNCHANGED <<tasks, permits>>
             ELSE /\ spc' = "gather"
                  /\ tasks' = Dispatch(fetched)
                  /\ permits' = CONCURRENCY
       \/ /\ spc' = "sleep"
          /\ UNCHANGED <<rows, tasks, permits>>
    /\ UNCHANGED <<storeVars, envVars, callVars, browser, files>>

\* The gather returns and main_async with it: its locals (rows, tasks, the
\* semaphore) are gone, only a task that were still running would live on.
SchedGatherDone ==
    /\ spc = "gather"
    /\ GatherReturns
    /\ spc' = "sleep"
    /\ rows' = <<>>
    /\ tasks' = SelectSeq(tasks, LAMBDA t : t.pc # "done")
    /\ permits' = CONCURRENCY
    /\ UNCHANGED <<storeVars, envVars, callVars, browser, files>>

\* await asyncio.sleep(SLEEP_INTERVAL), then the next iteration.
SchedSleep ==
    /\ spc = "sleep"
    /\ spc' = "top"
    /\ UNCHANGED <<storeVars, envVars, callVars, browser, rows, tasks, permits, files>>

\* The browser process dies or the connection to it is lost.  The loop reads
\* browser.is_connected() only in the check at its top, so a loss at any
\* earlier moment of the cycle is the same run as a loss just before it.
BrowserDisconnect ==
    /\ browser = "connected"
    /\ spc = "top"
    /\ browser' = "disconnected"
    /\ UNCHANGED <<storeVars, envVars, callVars, spc, rows, tasks, permits, files>>

\* KeyboardInterrupt while asyncio.run(run_continuously()) runs: the main task
\* is cancelled at the await it is suspended in.  CancelledError is no
\* Exception, so it passes the except clauses of run_continuously and leaves
\* the function from inside the while loop, without reaching the statements
\* after the loop (lines 405-409); the row tasks are cancelled with the event
\* loop.  No statement of run_continuously or of the main block calls
\* browser.close() on this path.
Interrupt ==
    /\ spc \notin {"stopped", "interrupted"}
    /\ spc' = "interrupted"
    /\ rows' = <<>>
    /\ tasks' = <<>>
    /\ permits' = CONCURRENCY
    /\ UNCHANGED <<storeVars, envVars, callVars, browser, files>>

\* ------------------------------------------------------------ specification

Init ==
    /\ \E kind \in [RowIds -> RowKinds] :
          /\ status = [r \in RowIds |-> kind[r].status]
          /\ cells = [r \in RowIds |-> kind[r].cells]
    /\ schema \in Schemas
    /\ configOK \in BOOLEAN
    /\ browser = "none"
    /\ spc = "top"
    /\ rows = <<>>
    /\ tasks = <<>>
    /\ permits = CONCURRENCY
    /\ files = {}
    /\ cleanCall = NoCall
    /\ resolveCall = NoCall
    /\ validateCall = NoCall
    /\ extractCalls = <<>>

Next ==
    \/ SchedTop
    \/ SchedLaunch
    \/ SchedFetch
    \/ SchedGatherDone
    \/ SchedSleep
    \/ BrowserDisconnect
    \/ Interrupt
    \/ \E i \in TaskIds : Acquire(i)
    \/ \E i \in TaskIds : WebMarkInProgress(i)
    \/ \E i \in TaskIds : WebExtract(i)
    \/ \E i \in TaskIds : WebErrorWrite(i)
    \/ \E i \in TaskIds : AiMarkInProgress(i)
    \/ \E i \in TaskIds : AiSchema(i)
    \/ \E i \in TaskIds : AiGather(i)
    \/ \E i \in TaskIds : AiUpdate(i)
    \/ \E i \in TaskIds : AiFinal(i)
    \/ \E i \in TaskIds : AiErrorWrite(i)

Spec == Init /\ [][Next]_vars

\* The steps of the program itself: the event loop runs every coroutine that
\* is ready, and every external call returns or raises in the end.  The loss
\* of the browser and the interrupt are the environment's.
Progress ==
    \/ SchedTop
    \/ SchedLaunch
    \/ SchedFetch
    \/ SchedGatherDone
    \/ SchedSleep
    \/ \E i \in TaskIds : Acquire(i)
    \/ \E i \in TaskIds : WebMarkInProgress(i)
    \/ \E i \in TaskIds : WebExtract(i)
    \/ \E i \in TaskIds : WebErrorWrite(i)
    \/ \E i \in TaskIds : AiMarkInProgress(i)
    \/ \E i \in TaskIds : AiSchema(i)
    \/ \E i \in TaskIds : AiGather(i)
    \/ \E i \in TaskIds : AiUpdate(i)
    \/ \E i \in TaskIds : AiFinal(i)
    \/ \E i \in TaskIds : AiErrorWrite(i)

\* The tables the runs with fairness start from: configured store, rows
\* that have a URL and are at Todo, Toai or Done.
LiveRowKinds ==
    { k \in RowKinds : k.cells["URL"] = "old" /\ k.status \in {"Todo", "Toai", "Done"} }

InitLive ==
    /\ \E kind \in [RowIds -> LiveRowKinds] :
          /\ status = [r \in RowIds |-> kind[r].status]
          /\ cells = [r \in RowIds |-> kind[r].cells]
    /\ schema \in Schemas
    /\ configOK = TRUE
    /\ browser = "none"
    /\ spc = "top"
    /\ rows = <<>>
    /\ tasks = <<>>
    /\ permits = CONCURRENCY
    /\ files = {}
    /\ cleanCall = NoCall
    /\ resolveCall = NoCall
    /\ validateCall = NoCall
    /\ extractCalls = <<>>

SpecFair == InitLive /\ [][Next]_vars /\ WF_vars(Progress)

\* An operator of the table sets a failed row back to Todo or Toai, at any
\* moment; the next listing of get_rows_to_process matches the row again.
OperatorReset(r) ==
    /\ status[r] = "Error"
    /\ \E to \in {"Todo", "Toai"} : status' = [status EXCEPT ![r] = to]
    /\ UNCHANGED <<cells, envVars, callVars, browser, spc, rows, tasks, permits, files>>

\* The tables of the runs with an operator: the last row is done with,
\* every other row has a URL and awaits one of the two workers, and the
\* schema has generated fields to request.
InitReset ==
    /\ \E kind \in [RowIds -> LiveRowKinds] :
          /\ \A r \in RowIds : kind[r].status = "Done" <=> r = NumRows
          /\ status = [r \in RowIds |-> kind[r].status]
          /\ cells = [r \in RowIds |-> kind[r].cells]
    /\ schema = {"Title", "AI_SUMMARY", "AI_Note", "AI_Plain", "AI_Bare"}
    /\ configOK = TRUE
    /\ browser = "none"
    /\ spc = "top"
    /\ rows = <<>>
    /\ tasks = <<>>
    /\ permits = CONCURRENCY
    /\ files = {}
    /\ cleanCall = NoCall
    /\ resolveCall = NoCall
    /\ validateCall = NoCall
    /\ extractCalls = <<>>

NextReset == Next \/ \E r \in RowIds : OperatorReset(r)

SpecReset == InitReset /\ [][NextReset]_vars

\* The pipeline on a table with the wide schema.
InitWide ==
    /\ \E kind \in [RowIds -> LiveRowKinds] :
          /\ status = [r \in RowIds |-> kind[r].status]
          /\ cells = [r \in RowIds |-> kind[r].cells]
    /\ schema = WideSchema
    /\ configOK = TRUE
    /\ browser = "none"
    /\ spc = "top"
    /\ rows = <<>>
    /\ tasks = <<>>
    /\ permits = CONCURRENCY
    /\ files = {}
    /\ cleanCall = NoCall
    /\ resolveCall = NoCall
    /\ validateCall = NoCall
    /\ extractCalls = <<>>

SpecWide == InitWide /\ [][Next]_vars

\* The pipeline before run_continuously has started, for the specifications
\* below that follow one call of a function on its own.
PipelineAtRest ==
    /\ status = [r \in RowIds |-> "Done"]
    /\ cells = [r \in RowIds |-> EmptyCells]
    /\ schema = {}
    /\ configOK = TRUE
    /\ browser = "none"
    /\ spc = "top"
    /\ rows = <<>>
    /\ tasks = <<>>
    /\ permits = CONCURRENCY
    /\ files = {}

\* ------------------------------------------------- strings as sequences

\* A string is the sequence of its characters.
RECURSIVE Flatten(_)
Flatten(pieces) ==
    IF pieces = <<>> THEN <<>> ELSE Head(pieces) \o Flatten(Tail(pieces))

\* s[k:].startswith(lit)
StartsWith(s, k, lit) ==
    /\ k + Len(lit) - 1 <= Len(s)
    /\ \A j \in 1..Len(lit) : s[k + j - 1] = lit[j]

\* ---------------------------------------- body text of get_website_async

\* Where the lazy ".*?" started at k lets the literal close begin: the first
\* occurrence of close at or after k, which without DOTALL no newline may
\* precede. 0 when there is none.
LazyEnd(s, k, close, dotall) ==
    LET ends == { m \in k..Len(s) :
                    /\ StartsWith(s, m, close)
                    /\ dotall \/ \A j \in k..(m - 1) : s[j] # "\n" }
    IN  IF ends = {} THEN 0 ELSE CHOOSE m \in ends : \A n \in ends : m <= n

\* re.sub(open + ".*?" + close, repl, s) from position k on.
RECURSIVE SubSpan(_, _, _, _, _, _)
SubSpan(s, k, open, close, repl, dotall) ==
    IF k > Len(s) THEN <<>>
    ELSE LET m == IF StartsWith(s, k, open)
                  THEN LazyEnd(s, k + Len(open), close, dotall) ELSE 0
         IN  IF m # 0
             THEN repl \o SubSpan(s, m + Len(close), open, close, repl, dotall)
             ELSE <<s[k]>> \o SubSpan(s, k + 1, open, close, repl, dotall)

\* Length of the longest run of characters of class cls that starts at k.
RECURSIVE RunLength(_, _, _)
RunLength(s, k, cls) ==
    IF k > Len(s) \/ s[k] \notin cls THEN 0 ELSE 1 + RunLength(s, k + 1, cls)

\* re.sub("[cls]{least,}", repl, s) from position k on.
RECURSIVE SubRun(_, _, _, _, _)
SubRun(s, k, cls, least, repl) ==
    IF k > Len(s) THEN <<>>
    ELSE LET n == RunLength(s, k, cls)
         IN  IF n >= least
             THEN repl \o SubRun(s, k + n, cls, least, repl)
             ELSE <<s[k]>> \o SubRun(s, k + 1, cls, least, repl)

ScriptOpen == <<"<", "s", "c", "r", "i", "p", "t">>
ScriptClose == <<"/", "s", "c", "r", "i", "p", "t", ">">>
StyleOpen == <<"<", "s", "t", "y", "l", "e">>
StyleClose == <<"/", "s", "t", "y", "l", "e", ">">>

\* Lines 123-128, in order; the texts of the model are lower case, for which
\* IGNORECASE changes nothing.
NoScript(t) == SubSpan(t, 1, ScriptOpen, ScriptClose, <<>>, TRUE)
NoStyle(t) == SubSpan(t, 1, StyleOpen, StyleClose, <<>>, TRUE)
NoTags(t) == SubSpan(t, 1, <<"<">>, <<">">>, <<" ">>, FALSE)
ConsolidateNewlines(t) == SubRun(t, 1, {"\n"}, 3, <<"\n", "\n">>)
ConsolidateWhitespace(t) == SubRun(t, 1, Whitespace, 2, <<" ">>)
CleanText(t) ==
    Strip(ConsolidateWhitespace(ConsolidateNewlines(NoTags(NoStyle(NoScript(t))))))

MaxPieces == 6
ScriptElement == ScriptOpen \o <<">", "a", "<">> \o ScriptClose
Pieces == { <<"a">>, <<"b">>, <<" ">>, <<"\n">>, <<"<">>, <<">">>, ScriptElement }
BodyTexts(most) ==
    { Flatten(ps) : ps \in UNION { [1..n -> Pieces] : n \in 0..most } }

\* body_element.inner_text() has returned some text.
InitClean ==
    /\ PipelineAtRest
    /\ cleanCall \in { [pc |-> "inner_text", raw |-> t, page_text |-> t] :
                          t \in BodyTexts(MaxPieces) }
    /\ resolveCall = NoCall
    /\ validateCall = NoCall
    /\ extractCalls = <<>>

CleanBodyText ==
    /\ cleanCall.pc = "inner_text"
    /\ cleanCall' = [cleanCall EXCEPT !.pc = "cleaned",
                                      !.page_text = CleanText(cleanCall.raw)]
    /\ UNCHANGED <<pipeVars, extractCalls, resolveCall, validateCall>>

NextClean == CleanBodyText

SpecClean == InitClean /\ [][NextClean]_vars

\* ------------------------------- prompt resolution, bad_main.py:218-235

TemplateChars == {"{", "}", "a", "b"}

\* The other pieces of the texts of the model: a word or a passage of prose
\* stands as one piece, the space and the underscore for themselves.
Words ==
    {"text", " ", "_", "URL", "Pricing", "Status", "Title", "Name", "H1", "Meta",
     "Description", "Content"}

\* [^{}]
NameChars == (TemplateChars \cup Words) \ {"{", "}"}

\* Where the match of {([^{}]+)} that starts at k ends (the position of its
\* closing brace), 0 when none starts there.
TokenEnd(s, k) ==
    IF k > Len(s) \/ s[k] # "{" THEN 0
    ELSE LET n == RunLength(s, k + 1, NameChars)
         IN  IF n >= 1 /\ k + n + 1 <= Len(s) /\ s[k + n + 1] = "}"
             THEN k + n + 1 ELSE 0

\* re.findall(r'{([^{}]+)}', s) from position k on: the names, in order.
RECURSIVE FindAll(_, _)
FindAll(s, k) ==
    IF k > Len(s) THEN <<>>
    ELSE LET e == TokenEnd(s, k)
         IN  IF e # 0
             THEN <<Slice(s, k + 1, e)>> \o FindAll(s, e + 1)
             ELSE FindAll(s, k + 1)

\* s.replace(old, new) from position k on.
RECURSIVE Replace(_, _, _, _)
Replace(s, k, old, new) ==
    IF k > Len(s) THEN <<>>
    ELSE IF StartsWith(s, k, old)
         THEN new \o Replace(s, k + Len(old), old, new)
         ELSE <<s[k]>> \o Replace(s, k + 1, old, new)

\* placeholder in fields and fields[placeholder] is not None
HasValue(fields, placeholder) ==
    placeholder \in DOMAIN fields /\ fields[placeholder] # Null

\* The for loop of lines 221-227 over the placeholders still to do:
\* valid_substitution and the prompt it leaves.
RECURSIVE Substituted(_, _, _)
Substituted(prompt, placeholders, fields) ==
    IF placeholders = <<>> THEN [valid_substitution |-> TRUE, prompt |-> prompt]
    ELSE LET placeholder == Head(placeholders)
         IN  IF HasValue(fields, placeholder)
             THEN Substituted(
                     Replace(prompt, 1, <<"{">> \o placeholder \o <<"}">>,
                             fields[placeholder]),
                     Tail(placeholders), fields)
             ELSE [valid_substitution |-> FALSE, prompt |-> prompt]

MaxTemplate == 6
Templates(most) == UNION { [1..n -> TemplateChars] : n \in 0..most }
FieldNames == { <<"a">>, <<"b">> }
FieldValues == { <<"a">>, <<"{", "b", "}">>, Null }
FieldMaps == UNION { [names -> FieldValues] : names \in SUBSET FieldNames }

\* A prompt source has been found for the field (line 216).
InitResolve ==
    /\ PipelineAtRest
    /\ cleanCall = NoCall
    /\ resolveCall \in { [pc |-> "base_prompt", base_prompt |-> t, fields |-> m,
                          prompt |-> t] : t \in Templates(MaxTemplate), m \in FieldMaps }
    /\ validateCall = NoCall
    /\ extractCalls = <<>>

\* Lines 218-235: the field gets a completion request with the substituted
\* prompt, or is skipped.
ResolvePrompt ==
    /\ resolveCall.pc = "base_prompt"
    /\ LET loop == Substituted(resolveCall.base_prompt,
                               FindAll(resolveCall.base_prompt, 1),
                               resolveCall.fields)
       IN  resolveCall' =
              IF loop.valid_substitution
              THEN [resolveCall EXCEPT !.pc = "requested", !.prompt = loop.prompt]
              ELSE [resolveCall EXCEPT !.pc = "skipped", !.prompt = loop.prompt]
    /\ UNCHANGED <<pipeVars, extractCalls, cleanCall, validateCall>>

NextResolve == ResolvePrompt

SpecResolve == InitResolve /\ [][NextResolve]_vars

\* ------------------------------- prompt source, bad_main.py:201-214

\* prompt_library[name], the prose between the tokens as one piece.
PromptLibrary(name) ==
    CASE name = "AI_DESCRIPTION" ->
            <<"text", "{", "Title", "}", "text", "{", "Meta", " ", "Description", "}",
              "text", "{", "URL", " ", "Content", "}", "text">>
      [] name = "AI_SUMMARY" ->
            <<"text", "{", "Title", "}", "text", "{", "Name", "}", "text",
              "{", "H1", "}", "text", "{", "URL", "}", "text",
              "{", "Meta", " ", "Description", "}", "text">>
      [] name = "AI_TAGS" ->
            <<"text", "{", "URL", "_", "Content", "}", "text">>
      [] OTHER -> <<>>

\* The truth value of an optional text: None and "" are false.
Truthy(text) == text # Null /\ text # <<>>

\* Faulty variant of BasePrompt: the description is looked at first.
BasePromptDescriptionFirst(name, description) ==
    IF Truthy(description)
    THEN [source |-> "description", base_prompt |-> description]
    ELSE IF InLibrary(name)
    THEN [source |-> "library", base_prompt |-> PromptLibrary(name)]
    ELSE [source |-> "none", base_prompt |-> <<>>]

\* Lines 204-214: the base prompt of the field `name` with the schema
\* description `description`, and where it comes from.
BasePrompt(name, description) ==
    IF InLibrary(name)
    THEN [source |-> "library", base_prompt |-> PromptLibrary(name)]
    ELSE IF Truthy(description)
    THEN [source |-> "description", base_prompt |-> description]
    ELSE [source |-> "none", base_prompt |-> <<>>]

\* Names of generated fields that are empty in the fetched record, with and
\* without an entry in the prompt library.
SourceFieldNames == {"AI_DESCRIPTION", "AI_SUMMARY", "AI_TAGS", "AI_Note", "AI_Bare"}

\* field.description: None, empty, blank, and prompts with and without
\* tokens, some of the tokens with a space or an underscore in the name.
Descriptions ==
    { Null, <<>>, <<" ">>, <<"text">>,
      <<"text", "{", "URL", "}">>,
      <<"{", "Pricing", " ", "URL", "}", "text">>,
      <<"{", "Pricing", "_", "URL", "}">>,
      <<"{", "Title", "}">>,
      <<"{", "URL", "}", "{", "Pricing", " ", "URL", "}">> }

\* row["fields"] of a record of get_rows_to_process: of the three fields it
\* asks for, Status and those of URL and Pricing URL that hold a value.
RecordFieldMaps ==
    { [n \in names \cup {<<"Status">>} |->
          IF n = <<"URL">> THEN <<"u">>
          ELSE IF n = <<"Pricing", " ", "URL">> THEN <<"p">>
          ELSE <<"Toai">>] :
        names \in SUBSET {<<"URL">>, <<"Pricing", " ", "URL">>} }

\* The loop of handle_ai_processing is at an eligible field (line 204).
InitSource ==
    /\ PipelineAtRest
    /\ cleanCall = NoCall
    /\ resolveCall \in { [pc |-> "field", name |-> n, description |-> d,
                          fields |-> m, source |-> "unset",
                          base_prompt |-> <<>>, prompt |-> <<>>] :
                            n \in SourceFieldNames, d \in Descriptions,
                            m \in RecordFieldMaps }
    /\ validateCall = NoCall
    /\ extractCalls = <<>>

\* Lines 204-217: the base prompt is taken, or the field is skipped (continue).
ChoosePrompt ==
    /\ resolveCall.pc = "field"
    /\ LET chosen == BasePrompt(resolveCall.name, resolveCall.description)
       IN  resolveCall' =
              IF chosen.source = "none"
              THEN [resolveCall EXCEPT !.pc = "skipped", !.source = "none"]
              ELSE [resolveCall EXCEPT !.pc = "base_prompt",
                                       !.source = chosen.source,
                                       !.base_prompt = chosen.base_prompt,
                                       !.prompt = chosen.base_prompt]
    /\ UNCHANGED <<pipeVars, extractCalls, cleanCall, validateCall>>

NextSource == ChoosePrompt \/ ResolvePrompt

SpecSource == InitSource /\ [][NextSource]_vars

\* ------------- title and description, tools/get_website_async.py:66-110

\* locator(...).get_attribute('content') for a tag the page does not have:
\* the locator waits for the element and raises TimeoutError.
Missing == <<"TimeoutError">>

\* What get_attribute('content') gives for a meta tag: the tag is missing,
\* it has no content attribute (None), or its content is empty, blank or a
\* text.
MetaContents == { Missing, Null, <<>>, <<" ">>, <<" ", "b">> }

\* The if/else chain over the meta tags still to ask (lines 69-77 and
\* 95-108) with the final strip (lines 78, 110): the first content that is
\* true is taken and stripped, a missing tag raises, and with no content
\* taken the text stays as it was set at line 36 or 38, empty.
RECURSIVE Fallback(_)
Fallback(contents) ==
    IF contents = <<>> THEN <<>>
    ELSE IF Head(contents) = Missing THEN Missing
    ELSE IF Truthy(Head(contents)) THEN Strip(Head(contents))
    ELSE Fallback(Tail(contents))

\* Lines 67-78: the meta tags are asked only `if not title`.
ResolveTitle(page_title, og_title, twitter_title) ==
    IF Truthy(page_title) THEN Strip(page_title)
    ELSE Fallback(<<og_title, twitter_title>>)

\* The page is loaded (line 62).  page.title() is document.title, which the
\* browser gives without leading and trailing white space: empty or a text.
InitScrape ==
    /\ PipelineAtRest
    /\ cleanCall \in { [pc |-> "scrape", page_title |-> t,
                        og_title |-> ot, twitter_title |-> tt,
                        meta_desc |-> md, og_desc |-> od, twitter_desc |-> td,
                        title |-> <<>>, description |-> <<>>] :
                          t \in {<<>>, <<"a">>},
                          ot \in MetaContents, tt \in MetaContents,
                          md \in MetaContents, od \in MetaContents,
                          td \in MetaContents }
    /\ resolveCall = NoCall
    /\ validateCall = NoCall
    /\ extractCalls = <<>>

\* Lines 67-79; a TimeoutError goes to the except clause of line 140.
ScrapeTitle ==
    /\ cleanCall.pc = "scrape"
    /\ LET title == ResolveTitle(cleanCall.page_title, cleanCall.og_title,
                                 cleanCall.twitter_title)
       IN  cleanCall' = IF title = Missing
                        THEN [cleanCall EXCEPT !.pc = "failed"]
                        ELSE [cleanCall EXCEPT !.pc = "titled", !.title = title]
    /\ UNCHANGED <<pipeVars, extractCalls, resolveCall, validateCall>>

\* Lines 95-114.
ScrapeDescription ==
    /\ cleanCall.pc = "titled"
    /\ LET description == Fallback(<<cleanCall.meta_desc, cleanCall.og_desc,
                                     cleanCall.twitter_desc>>)
       IN  cleanCall' = IF description = Missing
                        THEN [cleanCall EXCEPT !.pc = "failed"]
                        ELSE [cleanCall EXCEPT !.pc = "described",
                                               !.description = description]
    /\ UNCHANGED <<pipeVars, extractCalls, resolveCall, validateCall>>

NextScrape == ScrapeTitle \/ ScrapeDescription

SpecScrape == InitScrape /\ [][NextScrape]_vars

\* --------------- get_validated_response_async, tools/simple_ai_async.py

DefaultRetries == 3

\* The validator's answer that accepts a response.
Valid == <<"1">>

Prompts == { <<"p">>, <<"q">> }
Feedbacks == { <<"feedback", "a">>, <<"feedback", "b">>, <<"feedback", "c">> }

\* The n-th text the completion service returns.
Text(n) == <<"text", n>>

\* f"... Original prompt: '{prompt}' ... Proposed response: '{original_response}' ..."
ValidationPrompt(prompt, original_response) ==
    <<"validate", prompt, original_response>>

\* f"Please rephrase your response to address feedback. Original Prompt:
\* '{prompt}', Feedback: '{validation_response}'"
RephrasePrompt(prompt, validation_response) ==
    <<"rephrase", prompt, validation_response>>

\* Message contents of the validation model: the accepting answer, bare,
\* padded and quoted, feedback texts, and the empty kinds of a completion.
ValidatorContents ==
    { Null, <<>>, <<" ">>, <<"\"", "\"">>,
      Valid, <<" ", "1", "\n">>, <<"\"", "1", "\"">> } \cup Feedbacks

\* Faulty variant of Accepted: any answer of the validator accepts.
AcceptedAny(validation_response) == validation_response # Null

\* if validation_response == "1"
Accepted(validation_response) == validation_response = Valid

\* Faulty variant of LoopContinues: the budget is never consulted.
LoopContinuesAlways(retries) == TRUE

\* Faulty variant of LoopContinues: the last attempt of the budget is not made.
LoopContinuesAboveOne(retries) == retries > 1

\* while retries > 0
LoopContinues(retries) == retries > 0

\* The top of the while loop: one more completion is requested, or the
\* function falls off the loop and returns None.
LoopTop(call) ==
    IF LoopContinues(call.retries)
    THEN [call EXCEPT !.pc = "completion",
                      !.requests = Append(@, [model |-> "default",
                                              prompt |-> call.prompt])]
    ELSE [call EXCEPT !.pc = "returned", !.result = Null]

InitValidate ==
    /\ PipelineAtRest
    /\ cleanCall = NoCall
    /\ resolveCall = NoCall
    /\ extractCalls = <<>>
    /\ validateCall \in { [pc |-> "called", retries |-> DefaultRetries,
                           api_key |-> k,
                           prompt |-> q, original_response |-> Null,
                           requests |-> <<>>, responses |-> <<>>,
                           validations |-> <<>>, result |-> Null] :
                             q \in Prompts, k \in BOOLEAN }

\* The call starts and reaches its first await.
ValidateEnter ==
    /\ validateCall.pc = "called"
    /\ validateCall' = LoopTop(validateCall)
    /\ UNCHANGED <<pipeVars, extractCalls, cleanCall, resolveCall>>

\* get_ai_response_async(prompt) has ended (lines 66-70): with None the call
\* returns None, with a text (the n-th text of the call, whatever it says)
\* the validation is requested; an exception would leave the call.
ValidateCompletion ==
    /\ validateCall.pc = "completion"
    /\ \E api \in CompletionContents \cup {ApiError} :
          LET response == GetAiResponse(validateCall.api_key, api)
              original_response ==
                  IF response = Null THEN Null
                  ELSE Text(Len(validateCall.responses) + 1)
              got == [validateCall EXCEPT
                         !.original_response = original_response,
                         !.responses = Append(@, original_response)]
          IN  validateCall' =
                 IF response = ApiError
                 THEN [validateCall EXCEPT !.pc = "raised"]
                 ELSE IF original_response = Null
                 THEN [got EXCEPT !.pc = "returned", !.result = Null]
                 ELSE [got EXCEPT
                          !.pc = "validation",
                          !.requests = Append(@,
                             [model |-> "validation",
                              prompt |-> ValidationPrompt(got.prompt,
                                                          original_response)])]
    /\ UNCHANGED <<pipeVars, extractCalls, cleanCall, resolveCall>>

\* get_ai_response_async(validation_prompt, model=VALIDATION_MODEL) has
\* ended (lines 91-105).
ValidateAnswer ==
    /\ validateCall.pc = "validation"
    /\ \E api \in ValidatorContents \cup {ApiError} :
          LET validation_response == GetAiResponse(validateCall.api_key, api)
              got == [validateCall EXCEPT
                         !.validations = Append(@, validation_response)]
          IN  validateCall' =
                 IF validation_response = ApiError
                 THEN [validateCall EXCEPT !.pc = "raised"]
                 ELSE IF validation_response = Null
                 THEN [got EXCEPT !.pc = "returned", !.result = Null]
                 ELSE IF Accepted(validation_response)
                 THEN [got EXCEPT !.pc = "returned",
                                  !.result = got.original_response]
                 ELSE LoopTop([got EXCEPT
                                  !.prompt = RephrasePrompt(got.prompt,
                                                            validation_response),
                                  !.retries = got.retries - 1])
    /\ UNCHANGED <<pipeVars, extractCalls, cleanCall, resolveCall>>

NextValidate == ValidateEnter \/ ValidateCompletion \/ ValidateAnswer

SpecValidate == InitValidate /\ [][NextValidate]_vars

\* The completion path on both of its levels: a run is either one of the
\* worker, whose AI handler gathers the outcomes of its completion calls, or
\* one of a single get_validated_response_async call (next to a scheduler
\* that finds no row to process).
InitCompletion == InitLive \/ InitValidate

NextCompletion == Next \/ NextValidate

SpecCompletion == InitCompletion /\ [][NextCompletion]_vars

\* ------------------- get_website_async under process_urls (tools module)

\* The URLs main() hands to process_urls.
NumUrls == 4

\* max_concurrent=3, the value of the semaphore of process_urls.
MaxConcurrent == 3

\* context = await browser.new_context(viewport=DEFAULT_VIEWPORT) of main():
\* the one context of the run.
SharedContext == <<"context", "main">>

\* A get_website_async(browser, context, url, name) coroutine of
\* process_urls before it has the semaphore: page is None.  `context` is
\* the argument it was given, `result` becomes "ok" (a screenshot path is
\* returned) or "failed" (None is returned in its place).
NewExtract(context) ==
    [pc |-> "waiting", context |-> context, page |-> "none", result |-> "none"]

\* tasks = [process_with_semaphore(url, name) for ...]: each task passes the
\* context of process_urls on to get_website_async.
ProcessUrls(context) == [k \in 1..NumUrls |-> NewExtract(context)]

ExtractIds == 1..Len(extractCalls)

Extracting(k) == extractCalls[k].pc \notin {"waiting", "returned"}

\* Faulty variant of ExceptThenFinally: the page is closed after the try
\* statement, not in a finally clause, and the except clause returns.
ExceptThenReturn(call) == [call EXCEPT !.result = "failed", !.pc = "returned"]

\* An exception inside the try block (lines 140-154): the except clause
\* returns None in place of the path, and on the way out the finally clause
\* closes the page if one was opened.
ExceptThenFinally(call) ==
    [call EXCEPT !.result = "failed",
                 !.pc = IF call.page = "open" THEN "close" ELSE "returned"]

InitExtract ==
    /\ PipelineAtRest
    /\ cleanCall = NoCall
    /\ resolveCall = NoCall
    /\ validateCall = NoCall
    /\ extractCalls = ProcessUrls(SharedContext)

\* async with semaphore: (waiters are served first in, first out)
ExtractEnter(k) ==
    /\ extractCalls[k].pc = "waiting"
    /\ Cardinality({ j \in ExtractIds : Extracting(j) }) < MaxConcurrent
    /\ \A j \in 1..(k - 1) : extractCalls[j].pc # "waiting"
    /\ extractCalls' = [extractCalls EXCEPT ![k].pc = "new_page"]
    /\ UNCHANGED <<pipeVars, cleanCall, resolveCall, validateCall>>

\* page = await context.new_page(): the commented-out line before it would
\* have made a context of the call's own.
ExtractNewPage(k) ==
    /\ extractCalls[k].pc = "new_page"
    /\ \/ extractCalls' = [extractCalls EXCEPT ![k].page = "open", ![k].pc = "goto"]
       \/ extractCalls' = [extractCalls EXCEPT ![k] = ExceptThenFinally(@)]
    /\ UNCHANGED <<pipeVars, cleanCall, resolveCall, validateCall>>

\* await page.goto(url, ...), then the rendering delay
ExtractGoto(k) ==
    /\ extractCalls[k].pc = "goto"
    /\ \/ extractCalls' = [extractCalls EXCEPT ![k].pc = "scrape"]
       \/ extractCalls' = [extractCalls EXCEPT ![k] = ExceptThenFinally(@)]
    /\ UNCHANGED <<pipeVars, cleanCall, resolveCall, validateCall>>

\* Title, H1, description and body text (lines 67-132): a failure of the H1
\* or the body text is swallowed by its own try, any other leaves the block.
ExtractScrape(k) ==
    /\ extractCalls[k].pc = "scrape"
    /\ \/ extractCalls' = [extractCalls EXCEPT ![k].pc = "screenshot"]
       \/ extractCalls' = [extractCalls EXCEPT ![k] = ExceptThenFinally(@)]
    /\ UNCHANGED <<pipeVars, cleanCall, resolveCall, validateCall>>

\* await page.screenshot(...): the try block ends and the finally clause runs.
ExtractScreenshot(k) ==
    /\ extractCalls[k].pc = "screenshot"
    /\ \/ extractCalls' = [extractCalls EXCEPT ![k].result = "ok", ![k].pc = "close"]
       \/ extractCalls' = [extractCalls EXCEPT ![k] = ExceptThenFinally(@)]
    /\ UNCHANGED <<pipeVars, cleanCall, resolveCall, validateCall>>

\* The finally clause: await page.close(), an error of which is printed;
\* the function returns.
ExtractClose(k) ==
    /\ extractCalls[k].pc = "close"
    /\ \E closed \in {"closed", "close_failed"} :
          extractCalls' = [extractCalls EXCEPT ![k].page = closed,
                                               ![k].pc = "returned"]
    /\ UNCHANGED <<pipeVars, cleanCall, resolveCall, validateCall>>

NextExtract ==
    \/ \E k \in ExtractIds : ExtractEnter(k)
    \/ \E k \in ExtractIds : ExtractNewPage(k)
    \/ \E k \in ExtractIds : ExtractGoto(k)
    \/ \E k \in ExtractIds : ExtractScrape(k)
    \/ \E k \in ExtractIds : ExtractScreenshot(k)
    \/ \E k \in ExtractIds : ExtractClose(k)

SpecExtract == InitExtract /\ [][NextExtract]_vars

TypeOK ==
    /\ status \in [RowIds -> Statuses]
    /\ cells \in [RowIds -> [CellNames -> CellKinds]]
    /\ schema \in Schemas
    /\ browser \in {"none", "connected", "disconnected", "closed"}
    /\ spc \in {"top", "launch", "fetch", "gather", "sleep", "stopped", "interrupted"}
    /\ permits \in 0..CONCURRENCY
    /\ \A i \in TaskIds : tasks[i].row \in RowIds

\* ------------------------------------------------------------------ claims

ActiveTasks == { i \in TaskIds : Active(i) }

\* C1: at every moment the number of process_row tasks inside the
\* semaphore block is at most the concurrency limit, whatever the number of
\* rows of the cycle.
C1_ConcurrencyBound == Cardinality(ActiveTasks) <= CONCURRENCY

\* The limit is reached while a further row waits for a permit.
C1_Witness ==
    /\ Cardinality(ActiveTasks) = CONCURRENCY
    /\ \E i \in TaskIds : tasks[i].pc = "waiting"

FinalStatuses == {"Toai", "Done", "Error"}

\* C2: a row whose worker raises takes nothing from its siblings: the cycle
\* does not end before the task of every dispatched row has ended, a task
\* ends only by its handler returning or by an exception of its own row's
\* calls, and a handler that returned has written a final status.
C2_FailureIsolation ==
    /\ spc # "gather" => tasks = <<>>
    /\ \A i \in TaskIds :
          tasks[i].pc = "done" =>
             /\ tasks[i].exit \in {"returned", "raised"}
             /\ tasks[i].exit = "raised" => tasks[i].fail
             /\ tasks[i].exit = "returned" => status[tasks[i].row] \in FinalStatuses

\* One row of a full cycle failed and every other row ended with its handler
\* returning after its final status write.
C2_Witness ==
    /\ Len(tasks) = NumRows
    /\ \E i \in TaskIds :
          /\ tasks[i].pc = "done" /\ tasks[i].exit = "raised"
          /\ \A j \in TaskIds \ {i} :
                /\ tasks[j].pc = "done" /\ tasks[j].exit = "returned"
                /\ status[tasks[j].row] \in FinalStatuses

\* C3: a row fetched as Todo with a URL, whose pass ended without any failure
\* of the extractor, the upload or the store, is at Toai with Title, H1 and
\* body text written.
C3_TodoReachesToai ==
    \A i \in TaskIds :
       ( /\ tasks[i].pc = "done"
         /\ tasks[i].st = "Todo"
         /\ "URL" \in tasks[i].fields
         /\ tasks[i].exit = "returned"
         /\ ~tasks[i].fail )
       => /\ status[tasks[i].row] = "Toai"
          /\ \A f \in {"Title", "H1", "URL_Content"} : cells[tasks[i].row][f] # "empty"

EligibleAtStart(r) ==
    { f \in schema : HasAIPrefix(f) /\ cells[r][f] # "old" }

\* C5 as stated: after the pass over a row fetched as Toai, every eligible
\* generated field holds a completion text or an error text.
C5_AllEligibleFilled ==
    \A i \in TaskIds :
       (tasks[i].pc = "done" /\ tasks[i].st = "Toai" /\ tasks[i].exit = "returned")
       => \A f \in EligibleAtStart(tasks[i].row) :
             cells[tasks[i].row][f] \in {"text", "error"}

\* C5 amended: once the field update of the pass is through, a field whose
\* completion was requested holds the text the completion returned, or an
\* error text if the completion raised; a prefixed field that was skipped or
\* whose completion returned nothing is as it was, with no failure mark.
C5_RequestedFilled ==
    \A i \in TaskIds :
       tasks[i].pc = "ai_final" =>
          \A f \in AIFields :
             LET cell == cells[tasks[i].row][f]
                 asked == f \in Requested(tasks[i])
             IN  /\ (asked /\ tasks[i].resp[f] = "text") => cell = "text"
                 /\ (asked /\ tasks[i].resp[f] = "exc") => cell = "error"
                 /\ (~asked \/ tasks[i].resp[f] = "null") => cell \in {"empty", "old"}

\* After the update one requested field holds its text while another
\* prefixed field of the schema is still empty.
C5_Witness ==
    \E i \in TaskIds :
       /\ tasks[i].pc = "ai_final"
       /\ \E f \in Requested(tasks[i]) :
             tasks[i].resp[f] = "text" /\ cells[tasks[i].row][f] = "text"
       /\ \E g \in schema : HasAIPrefix(g) /\ cells[tasks[i].row][g] = "empty"

InertStatuses == {"Done", "Error", "In progress", "AI in progress"}

\* C6: no task is ever created for a row that was fetched at Done, Error,
\* "In progress" or "AI in progress" (such a row is not even listed), and a
\* row of the store is changed only by a step of a task of that row that is
\* inside the semaphore block: a row that is at one of these statuses when
\* the cycle starts sees no call and no write in that cycle.
C6_InertRowsUntouched ==
    [][ /\ \A i \in 1..Len(tasks') : tasks'[i].st \notin InertStatuses
        /\ \A r \in RowIds :
              (status'[r] # status[r] \/ cells'[r] # cells[r])
              => \E i \in TaskIds : tasks[i].row = r /\ Active(i) ]_vars

\* A cycle is running tasks while a row that is already Done has none.
C6_Witness ==
    /\ spc = "gather"
    /\ ActiveTasks # {}
    /\ \E r \in RowIds :
          /\ status[r] = "Done"
          /\ \A i \in TaskIds : tasks[i].row # r

\* C10: the tasks of a cycle are one per fetched record, in order, the
\* fetched records are of different rows, and no two tasks in flight are of
\* the same row.
C10_OneWorkerPerRow ==
    /\ spc = "gather" =>
          /\ Len(tasks) = Len(rows)
          /\ \A k \in 1..Len(rows) : tasks[k].row = rows[k].id
    /\ \A i, j \in TaskIds :
          (i # j /\ InFlight(i) /\ InFlight(j)) => tasks[i].row # tasks[j].row

\* Two rows are being worked on at the same time.
C10_Witness ==
    \E i, j \in TaskIds : i # j /\ Active(i) /\ Active(j)

\* C11: while the scheduler is outside main_async's gather (sleeping, at the
\* top of its loop, launching the browser, fetching the rows of the next
\* cycle, stopped) no process_row task of an earlier cycle is still running.
C11_CyclesDoNotOverlap ==
    spc \in {"sleep", "top", "launch", "fetch", "stopped"} =>
       \A i \in TaskIds : ~InFlight(i)

\* A later cycle is running its tasks while a row bears the error text that
\* a worker of an earlier cycle wrote.
C11_Witness ==
    /\ spc = "gather"
    /\ ActiveTasks # {}
    /\ \E r \in RowIds :
          /\ cells[r]["Error Details"] = "error"
          /\ \A i \in TaskIds : tasks[i].row # r

\* C12 as stated: once a cycle has run (a browser had been launched), the
\* scheduler is never stopped by a failure.
C12_NeverStopped == ~(spc = "stopped" /\ browser = "closed")

\* C12 amended: however main_async ends, the scheduler goes on to its sleep
\* and from the sleep to the top of its loop, again and again; it stops only
\* at a browser launch that fails, or when the process is interrupted.
C12_SleepsAndRetries ==
    /\ []<>(spc \in {"sleep", "stopped", "interrupted"})
    /\ [][ /\ spc' = "stopped" => spc = "launch"
           /\ (spc \in {"fetch", "gather"} /\ spc' \notin {spc, "interrupted"})
                 => spc' \in {"gather", "sleep"}
           /\ (spc = "sleep" /\ spc' \notin {spc, "interrupted"}) => spc' = "top" ]_vars

\* The scheduler sleeps after a cycle in which the worker of a row raised.
C12_Witness ==
    /\ spc = "sleep"
    /\ \E r \in RowIds : status[r] \in {"In progress", "AI in progress"}

\* C13: a cycle that has dispatched its tasks returns to the scheduler
\* (which then sleeps), whatever the rows and whichever calls fail, unless the
\* process is interrupted: every task gets its permit and gives it back.
C13_CycleCompletes ==
    /\ (spc = "gather") ~> (spc \in {"sleep", "interrupted"})
    /\ [](permits + Cardinality(ActiveTasks) = CONCURRENCY)

\* The last task of a cycle with more rows than permits has ended, one of
\* the tasks by an exception.
C13_Witness ==
    /\ spc = "gather"
    /\ Len(tasks) > CONCURRENCY
    /\ \A i \in TaskIds : tasks[i].pc = "done"
    /\ \E i \in TaskIds : tasks[i].exit = "raised"

\* The Error write of a handler's except clause was issued and failed.
ErrorWriteFailed(t) == t.last \in {"web_error_write", "ai_error_write"}

\* C14: an exception that reaches process_row is converted into a
\* Status=Error write: a row whose worker raised is at Error unless the
\* Error write itself failed.
C14_RaiseBecomesError ==
    \A i \in TaskIds :
        (tasks[i].pc = "done" /\ tasks[i].exit = "raised") =>
            \/ status[tasks[i].row] = "Error"
            \/ ErrorWriteFailed(tasks[i])

\* C15: a Todo row's extraction never gets past the extractor call; the web
\* worker then issues the Error write, which when it succeeds leaves
\* Status=Error with a detail text of at most ErrorCap characters of the
\* message, and at no point of the pass is the row at Toai.
C15_WebFailureIsError ==
    \A i \in TaskIds :
        Handler(tasks[i]) = "web" =>
            /\ status[tasks[i].row] # "Toai"
            /\ tasks[i].pc # "web_page"
            /\ (tasks[i].pc = "done" /\ tasks[i].last # "web_inprog") =>
                   /\ tasks[i].last = "web_error_write"
                   /\ tasks[i].exit = "returned" =>
                          /\ status[tasks[i].row] = "Error"
                          /\ cells[tasks[i].row]["Error Details"] = "error"

\* A web worker's Error write has succeeded while another row is in work.
C15_Witness ==
    \E i \in TaskIds :
        /\ Handler(tasks[i]) = "web"
        /\ tasks[i].pc = "done"
        /\ tasks[i].exit = "returned"
        /\ status[tasks[i].row] = "Error"
        /\ cells[tasks[i].row]["Error Details"] = "error"
        /\ ActiveTasks # {}

\* C16: with every store call of the pass succeeding, the row's Status after
\* the AI worker returned is Error exactly when a completion task had
\* produced an exception (has_errors was set to True).
C16_ErrorIffCompletionRaised ==
    \A i \in TaskIds :
        (/\ tasks[i].pc = "done"
         /\ Handler(tasks[i]) = "ai"
         /\ tasks[i].exit = "returned"
         /\ ~tasks[i].fail) =>
            (status[tasks[i].row] = "Error" <=> tasks[i].has_errors = "True")

\* C17: after an interrupt the browser that had been launched is not left
\* open: its close was called.
C17_ClosedOnInterrupt == spc = "interrupted" => browser # "connected"

\* C18: a Toai row for which no completion is to be requested is at Done
\* when its pass has ended without a failure of the store.
C18_NothingToRequestIsDone ==
    \A i \in TaskIds :
        (/\ tasks[i].pc = "done"
         /\ Handler(tasks[i]) = "ai"
         /\ Requested(tasks[i]) = {}
         /\ ~tasks[i].fail) =>
            status[tasks[i].row] = "Done"

\* C19: a completion is requested only for a generated field that holds no
\* value in the store.
C19_PopulatedNotRegenerated ==
    \A i \in TaskIds :
        tasks[i].pc \in {"ai_gather", "ai_update", "ai_final"} =>
            \A f \in Requested(tasks[i]) : cells[tasks[i].row][f] \in {"empty", "text"}

\* C20: a web worker whose store calls all succeed leaves the row at Toai
\* with the extracted fields written, and a row it works on never shows an
\* extracted field of the pass while it is not at Toai (the fields arrive
\* with the Toai write, in the same update).
C20_FieldsArriveWithToai ==
    \A i \in TaskIds :
        Handler(tasks[i]) = "web" =>
            /\ (tasks[i].pc = "done" /\ ~tasks[i].fail) =>
                   /\ status[tasks[i].row] = "Toai"
                   /\ \A f \in WebFields : cells[tasks[i].row][f] = "text"
            /\ status[tasks[i].row] # "Toai" =>
                   \A f \in WebFields : cells[tasks[i].row][f] # "text"

\* C22: a Todo row with a Pricing URL whose web pass has ended with every
\* store call succeeding is at Toai with the primary fields written, and its
\* pricing text field holds the extracted text or, when the pricing
\* extraction failed, the error marker: the row is not failed.
C22_PricingFailureKeepsRow ==
    \A i \in TaskIds :
        (/\ Handler(tasks[i]) = "web"
         /\ "Pricing URL" \in tasks[i].fields
         /\ tasks[i].pc = "done"
         /\ ~tasks[i].fail) =>
            /\ status[tasks[i].row] = "Toai"
            /\ cells[tasks[i].row]["Pricing_URL_Content"] \in {"text", "error"}
            /\ \A f \in WebFields : cells[tasks[i].row][f] # "empty"

\* The template with every token replaced by the value of its field.
RECURSIVE EachTokenReplaced(_, _, _)
EachTokenReplaced(s, k, fields) ==
    IF k > Len(s) THEN <<>>
    ELSE LET e == TokenEnd(s, k)
         IN  IF e # 0
             THEN fields[Slice(s, k + 1, e)] \o EachTokenReplaced(s, e + 1, fields)
             ELSE <<s[k]>> \o EachTokenReplaced(s, k + 1, fields)

\* C7: when every token of the template has a field with a value, a
\* completion is requested with the template in which each token is replaced
\* by that value; when a token's field is absent or null, the field is
\* skipped and nothing is requested.
C7_PromptResolution ==
    resolveCall.pc \in {"requested", "skipped"} =>
       LET tokens == FindAll(resolveCall.base_prompt, 1)
           complete == \A k \in 1..Len(tokens) :
                          HasValue(resolveCall.fields, tokens[k])
       IN  IF complete
           THEN /\ resolveCall.pc = "requested"
                /\ resolveCall.prompt =
                      EachTokenReplaced(resolveCall.base_prompt, 1, resolveCall.fields)
           ELSE resolveCall.pc = "skipped"

CompletionRequests ==
    SelectSeq(validateCall.requests, LAMBDA q : q.model = "default")

\* C8: with the default budget, a validator that gives feedback twice has
\* a third completion requested, and when it then answers "1" the call
\* returns the text of that third completion, with three completion and
\* three validation requests made in all and none after.
C8_ThirdAttemptReturned ==
    LET answers == validateCall.validations
        twice == /\ Len(answers) >= 2
                 /\ answers[1] \in Feedbacks /\ answers[2] \in Feedbacks
    IN  /\ twice => Len(CompletionRequests) >= 3
        /\ (twice /\ Len(answers) >= 3 /\ answers[3] = Valid) =>
              /\ validateCall.pc = "returned"
              /\ validateCall.result = Text(3)
              /\ validateCall.result = validateCall.responses[3]
              /\ Len(validateCall.responses) = 3
              /\ Len(answers) = 3
              /\ Len(validateCall.requests) = 6

\* Feedback twice, then "1", and the call has returned.
C8_Witness ==
    /\ validateCall.pc = "returned"
    /\ Len(validateCall.validations) = 3
    /\ validateCall.validations[1] \in Feedbacks
    /\ validateCall.validations[2] \in Feedbacks
    /\ validateCall.validations[3] = Valid
    /\ validateCall.result = Text(3)

\* C9: the cleaned body text of "a\n\n\n\nb" is "a\n\nb" and that of
\* "a    b" is "a b": a run of three or more newlines leaves two newlines, a
\* run of two or more whitespace characters leaves one space.
C9_NormalizeExamples ==
    cleanCall.pc = "cleaned" =>
       /\ cleanCall.raw = <<"a", "\n", "\n", "\n", "\n", "b">>
             => cleanCall.page_text = <<"a", "\n", "\n", "b">>
       /\ cleanCall.raw = <<"a", " ", " ", " ", " ", "b">>
             => cleanCall.page_text = <<"a", " ", "b">>

ValidationRequests ==
    SelectSeq(validateCall.requests, LAMBDA q : q.model = "validation")

\* C24: a get_validated_response_async call makes at most DefaultRetries
\* completion and at most DefaultRetries validation requests, has returned
\* once the last of them was answered, and returns None when no answer
\* accepted; the AI worker writes nothing to a field whose call gave None
\* and does not choose Error as the final status because of it.
C24_BoundedAttemptsThenSkip ==
    /\ validateCall.pc # "none" =>
          /\ Len(CompletionRequests) <= DefaultRetries
          /\ Len(ValidationRequests) <= DefaultRetries
          /\ Len(validateCall.validations) = DefaultRetries =>
                validateCall.pc = "returned"
          /\ (/\ validateCall.pc = "returned"
              /\ \A k \in 1..Len(validateCall.validations) :
                    validateCall.validations[k] # Valid) =>
                validateCall.result = Null
    /\ \A i \in TaskIds :
          tasks[i].pc \in {"ai_update", "ai_final"} =>
              /\ \A f \in Requested(tasks[i]) :
                    tasks[i].resp[f] = "null" =>
                        /\ f \notin AiUpdates(Requested(tasks[i]), tasks[i].resp)
                        /\ cells[tasks[i].row][f] \in {"empty", "old"}
              /\ (\A f \in Requested(tasks[i]) :
                     tasks[i].resp[f] \in {"text", "null"}) =>
                    FinalStatus(tasks[i]) = "Done"

\* The budget is used up: three completions, three times feedback, None.
C24_Witness ==
    /\ validateCall.pc = "returned"
    /\ Len(CompletionRequests) = DefaultRetries
    /\ Len(validateCall.validations) = DefaultRetries
    /\ \A k \in 1..DefaultRetries : validateCall.validations[k] \in Feedbacks
    /\ validateCall.result = Null

\* C25: a call that returned a text returns the completion of its last
\* attempt, and the validator's answer to the validation prompt built from
\* exactly that text was "1"; a call that returned without such an answer
\* returned None.
C25_ReturnsOnlyAccepted ==
    validateCall.pc = "returned" =>
        LET n == Len(validateCall.validations)
            accepted == n >= 1 /\ validateCall.validations[n] = Valid
        IN  /\ validateCall.result # Null =>
                /\ accepted
                /\ Len(validateCall.responses) = n
                /\ validateCall.result = validateCall.responses[n]
                /\ validateCall.requests[Len(validateCall.requests)] =
                      [model |-> "validation",
                       prompt |-> ValidationPrompt(validateCall.prompt,
                                                   validateCall.result)]
            /\ ~accepted => validateCall.result = Null

\* Feedback on the first text, "1" on the second: the second is returned.
C25_Witness ==
    /\ validateCall.pc = "returned"
    /\ Len(validateCall.validations) = 2
    /\ validateCall.validations[1] \in Feedbacks
    /\ validateCall.validations[2] = Valid
    /\ validateCall.result = Text(2)

\* C26: no exception leaves a completion call: a get_validated_response_async
\* call never ends by raising and the gather of the AI worker holds no
\* exception; a field whose call gave None stays without a value and the
\* worker's pass, its store calls succeeding, ends with the row at Done.
C26_CompletionNeverRaises ==
    /\ validateCall.pc # "raised"
    /\ \A i \in TaskIds :
          /\ \A f \in AIFields : tasks[i].resp[f] # "exc"
          /\ tasks[i].pc = "ai_gather" => tasks[i].exit = "none"
          /\ (tasks[i].pc = "done" /\ tasks[i].last = "ai_final") =>
                status[tasks[i].row] = "Done"

\* A row is at Done although a requested field got no text.
C26_Witness ==
    \E i \in TaskIds :
        /\ tasks[i].pc = "done"
        /\ tasks[i].last = "ai_final"
        /\ status[tasks[i].row] = "Done"
        /\ \E f \in Requested(tasks[i]) : cells[tasks[i].row][f] = "empty"

\* C27: main_async is invoked straight from the start-of-cycle check only
\* when the check found a connected browser; in every other case the launch
\* comes first, and the browser main_async is invoked with is connected.
C27_RelaunchBeforeCycle ==
    [][ (spc \in {"top", "launch"} /\ spc' \in {"fetch", "sleep"}) =>
            /\ browser' = "connected"
            /\ spc = "top" => browser = "connected"
            /\ spc = "launch" => browser \in {"none", "disconnected"} ]_vars

\* After an earlier cycle the check has found the browser disconnected and
\* the scheduler is about to relaunch.
C27_Witness ==
    /\ spc = "launch"
    /\ browser = "disconnected"
    /\ \E r \in RowIds : cells[r]["Error Details"] = "error"

\* C28: the scheduler is at its launch step only without a browser or with a
\* disconnected one, and a browser becomes connected at that step only: a
\* connected browser is never replaced or doubled, and the one variable
\* `browser` is the instance every process_row of every cycle is given.
C28_OneSharedBrowser ==
    /\ [](spc = "launch" => browser \in {"none", "disconnected"})
    /\ [][ (browser # "connected" /\ browser' = "connected") =>
               spc = "launch" ]_vars

\* A cycle has been run with the browser, which is still connected at the
\* next start-of-cycle check: no launch follows.
C28_Witness ==
    /\ spc = "top"
    /\ browser = "connected"
    /\ \E r \in RowIds : cells[r]["Error Details"] = "error"

\* C29: a get_website_async call that has returned has no page left open: the
\* page it opened is closed, or its close was tried and failed, and a call
\* without a page is one whose new_page failed.
C29_PageClosedOnReturn ==
    \A k \in ExtractIds :
        extractCalls[k].pc = "returned" =>
            /\ extractCalls[k].page \in {"none", "closed", "close_failed"}
            /\ extractCalls[k].page = "none" => extractCalls[k].result = "failed"

\* One call has failed after it opened its page, another has succeeded, and
\* both have returned with the page closed.
C29_Witness ==
    \E j, k \in ExtractIds :
        /\ extractCalls[j].pc = "returned" /\ extractCalls[k].pc = "returned"
        /\ extractCalls[j].result = "failed" /\ extractCalls[j].page = "closed"
        /\ extractCalls[k].result = "ok" /\ extractCalls[k].page = "closed"

\* C30: two extractions that have opened a page never use the same browsing
\* context.
C30_ContextPerExtraction ==
    \A j, k \in ExtractIds :
        (/\ j # k
         /\ extractCalls[j].page # "none"
         /\ extractCalls[k].page # "none") =>
            extractCalls[j].context # extractCalls[k].context

\* C31: without the store configuration no cycle reads the store or
\* dispatches a row worker (main_async is never at its fetch or in its
\* gather, and there are no fetched rows and no tasks), and no step writes
\* to the store.
C31_NoConfigNoCycle ==
    /\ [](~configOK => /\ spc \notin {"fetch", "gather"}
                       /\ rows = <<>>
                       /\ tasks = <<>>)
    /\ [][ ~configOK => UNCHANGED storeVars ]_vars

\* main_async was invoked with a launched browser and returned at its
\* configuration check, while the table holds a row that awaits processing.
C31_Witness ==
    /\ ~configOK
    /\ browser = "connected"
    /\ spc = "sleep"
    /\ \E r \in RowIds : status[r] \in {"Todo", "Toai"}

\* The completion requests of a task that have been issued and not answered.
Outstanding(i) ==
    IF tasks[i].pc = "ai_gather"
    THEN { f \in AIFields : tasks[i].resp[f] = "pending" }
    ELSE {}

\* C32: a row in its gather has a completion request outstanding for every
\* field it requests, whatever their number, while the rows inside the
\* semaphore block are at most CONCURRENCY.
C32_RequestsNotBoundedByRows ==
    /\ Cardinality(ActiveTasks) <= CONCURRENCY
    /\ \A i \in TaskIds :
          tasks[i].pc = "ai_gather" => Outstanding(i) = Requested(tasks[i])

\* One row alone has more than CONCURRENCY completion requests outstanding.
C32_Witness ==
    \E i \in TaskIds : Cardinality(Outstanding(i)) > CONCURRENCY

\* C33: the base prompt of an eligible field is the library entry of its
\* name whenever there is one, else its schema description when that is not
\* empty; a field with neither is skipped and no completion is requested.
C33_LibraryThenDescription ==
    resolveCall.pc \notin {"none", "field"} =>
        IF InLibrary(resolveCall.name)
        THEN /\ resolveCall.source = "library"
             /\ resolveCall.base_prompt = PromptLibrary(resolveCall.name)
        ELSE IF resolveCall.description \notin {Null, <<>>}
        THEN /\ resolveCall.source = "description"
             /\ resolveCall.base_prompt = resolveCall.description
        ELSE /\ resolveCall.source = "none"
             /\ resolveCall.pc = "skipped"

\* The library prompt was taken for a field that has a description too.
C33_Witness ==
    /\ resolveCall.pc = "base_prompt"
    /\ resolveCall.source = "library"
    /\ resolveCall.description \notin {Null, <<>>}
    /\ resolveCall.base_prompt # resolveCall.description

\* key.replace(' ', '_')
Underscored(name) ==
    [k \in 1..Len(name) |-> IF name[k] = " " THEN "_" ELSE name[k]]

\* C34: when every token of the base prompt names, spaces and underscores
\* taken as the same, a field of the row with a value, the completion is
\* requested and no token is left in the prompt.
C34_SpacedTokensResolved ==
    (resolveCall.pc \in {"skipped", "requested"} /\ resolveCall.source # "none") =>
        LET tokens == FindAll(resolveCall.base_prompt, 1)
            Stored(token) ==
                \E key \in DOMAIN resolveCall.fields :
                    /\ Underscored(key) = Underscored(token)
                    /\ resolveCall.fields[key] # Null
        IN  (\A k \in 1..Len(tokens) : Stored(tokens[k])) =>
                /\ resolveCall.pc = "requested"
                /\ FindAll(resolveCall.prompt, 1) = <<>>

\* The first of the candidates that is not empty once trimmed, trimmed.
RECURSIVE FirstNonBlank(_)
FirstNonBlank(candidates) ==
    IF candidates = <<>> THEN <<>>
    ELSE IF /\ Head(candidates) \notin {Null, Missing}
            /\ Strip(Head(candidates)) # <<>>
         THEN Strip(Head(candidates))
         ELSE FirstNonBlank(Tail(candidates))

\* C35: the title the scrape has resolved is the first of page title,
\* og:title and twitter:title that is not empty after trimming, and the
\* description the first such of meta description, og:description and
\* twitter:description: a blank candidate does not stop the chain.
C35_FirstNonEmptyTrimmed ==
    /\ cleanCall.pc \in {"titled", "described"} =>
          cleanCall.title = FirstNonBlank(<<cleanCall.page_title, cleanCall.og_title,
                                            cleanCall.twitter_title>>)
    /\ cleanCall.pc = "described" =>
          cleanCall.description =
              FirstNonBlank(<<cleanCall.meta_desc, cleanCall.og_desc,
                              cleanCall.twitter_desc>>)

\* C36: nothing of a cycle is kept for the next (outside the gather there
\* are no fetched rows and no tasks), and the tasks a cycle dispatches are
\* those of the rows that are at Todo or Toai in the store when its fetch
\* returns, each with the status of that moment: a row set back by an
\* operator since the last cycle is among them.
C36_FetchedAfreshEachCycle ==
    /\ [](spc # "gather" => rows = <<>> /\ tasks = <<>>)
    /\ [][ (spc = "fetch" /\ spc' = "gather") =>
              /\ { tasks'[k].row : k \in 1..Len(tasks') } =
                     { r \in RowIds : status[r] \in {"Todo", "Toai"} }
              /\ \A k \in 1..Len(tasks') :
                     /\ tasks'[k].st = status[tasks'[k].row]
                     /\ tasks'[k].pc = "waiting" ]_vars

\* A worker is under way on a row that bears the error text of an earlier
\* cycle: the row was set back and fetched again.
C36_Witness ==
    \E i \in TaskIds :
        /\ Active(i)
        /\ cells[tasks[i].row]["Error Details"] = "error"

WebSteps == {"web_inprog", "web_extract", "web_page", "web_error_write"}

AiSteps == {"ai_inprog", "ai_schema", "ai_gather", "ai_update", "ai_final",
            "ai_error_write"}

\* C37: the task of a row runs the web worker only if the row was fetched at
\* Todo and the AI worker only if it was fetched at Toai, there is one task
\* per row, and a row fetched at Todo is not AI-processed in that cycle:
\* whatever the store says meanwhile, it is neither at "AI in progress" nor
\* at Done before the cycle has ended.
C37_OneWorkerByFetchedStatus ==
    \A i \in TaskIds :
        /\ (tasks[i].pc \in WebSteps \/ tasks[i].last \in WebSteps) => tasks[i].st = "Todo"
        /\ (tasks[i].pc \in AiSteps \/ tasks[i].last \in AiSteps) => tasks[i].st = "Toai"
        /\ tasks[i].st = "Todo" => status[tasks[i].row] \notin {"AI in progress", "Done"}
        /\ \A j \in TaskIds \ {i} : tasks[j].row # tasks[i].row

\* A row fetched at Todo is at Toai in the store while the cycle still runs,
\* its own task having ended: the AI worker is left to a later cycle.
C37_Witness ==
    \E i \in TaskIds :
        /\ tasks[i].st = "Todo"
        /\ tasks[i].pc = "done"
        /\ tasks[i].last \in WebSteps
        /\ status[tasks[i].row] = "Toai"
        /\ ActiveTasks # {}

\* C38: the step that writes a final status (Toai, Done or Error) to a row is
\* the step by which the handler of that row's task returns, so nothing of
\* the pass follows it; and a handler returns by such a write only.
C38_OneFinalStatusWrite ==
    [][ /\ \A r \in RowIds :
              (status'[r] # status[r] /\ status'[r] \in FinalStatuses) =>
                  \E i \in TaskIds :
                      /\ tasks[i].row = r
                      /\ Active(i)
                      /\ tasks'[i].pc = "done"
                      /\ tasks'[i].exit = "returned"
        /\ \A i \in TaskIds :
              (/\ i <= Len(tasks')
               /\ tasks[i].pc # "done"
               /\ tasks'[i].pc = "done"
               /\ tasks'[i].exit = "returned") =>
                  /\ status'[tasks[i].row] # status[tasks[i].row]
                  /\ status'[tasks[i].row] \in FinalStatuses ]_vars

\* In one cycle the AI worker of a row has ended with its Done write and the
\* web worker of another with its Error write.
C38_Witness ==
    \E i, j \in TaskIds :
        /\ tasks[i].pc = "done" /\ tasks[i].last = "ai_final"
        /\ tasks[i].exit = "returned" /\ status[tasks[i].row] = "Done"
        /\ tasks[j].pc = "done" /\ tasks[j].last = "web_error_write"
        /\ tasks[j].exit = "returned" /\ status[tasks[j].row] = "Error"

====
